---- MODULE Spec2Model ----
(***************************************************************************)
(* Model of the get-locksmith-eta Lambda: the request handler, the         *)
(* dispatcher (find_earliest_locksmith), the availability calculator       *)
(* (calculate_locksmith_eta), the travel estimator and its fallback, the   *)
(* fuzzy geocoder and the credential cache.  One request is processed      *)
(* synchronously; every call to an outside collaborator (SSM, HERE,        *)
(* DynamoDB) is one step whose outcome is chosen nondeterministically; at  *)
(* most MaxFailures of the calls made by one process fail.                 *)
(* Python's None is "" for strings and <<>> for coordinate pairs (both are *)
(* falsy in the source's truth tests).                                     *)
(***************************************************************************)
EXTENDS Integers, Sequences, FiniteSets, TLC

\* ---------------------------------------------------------------- bounds
MaxRequests == 2
MaxTechs == 2
MaxFailures == 1

\* ------------------------------------------------------------- constants
INF == 1000000
DEFAULT_TRAVEL_MINUTES == 30
LOW_TIME_MS == 100
HERE_KEY == "here-key"

BASE == "1614 10th St S, Arlington, VA 22204"
T1 == "123 Main Street Apt 4B, Springfield, VA 22150"
T2 == "Apt 4"
J1 == "500 Oak Road Unit 2, Fairfax, VA 22030"

LOCKSMITH_BASE_ADDRESSES(company) ==
  IF company = "QuickFix" THEN BASE ELSE ""

COMPANY_TABLE_MAPPING(company) ==
  IF company = "QuickFix" THEN "QuickFixLocksmithJobs" ELSE ""

VARIATION_TYPES ==
  <<"original", "normalized", "no_unit", "no_secondary",
    "street_city_state", "street_zip">>

\* ------------------------------------------- address transforms (tables)
\* Each transform is the source function evaluated on the addresses of the
\* model; "" is returned unchanged by the leading `if not address` test.
normalize_address(a) ==
  CASE a = BASE -> "1614 10Th St S, Arlington, Va 22204"
    [] a = T1 -> "123 Main St Apt 4B, Springfield, Va 22150"
    [] a = T2 -> "Apt 4"
    [] a = J1 -> "500 Oak Rd Unit 2, Fairfax, Va 22030"
    [] OTHER -> a

remove_unit(a) ==
  CASE a = BASE -> "1614 10th St S, Arlington, VA 22204"
    [] a = T1 -> "123 Main Street , Springfield, VA 22150"
    [] a = T2 -> ""
    [] a = J1 -> "500 Oak Road , Fairfax, VA 22030"
    [] OTHER -> a

remove_secondary(a) ==
  CASE a = BASE -> "1614 10th St S"
    [] a = T1 -> "123 Main Street Apt 4B"
    [] a = T2 -> "Apt 4"
    [] a = J1 -> "500 Oak Road Unit 2"
    [] OTHER -> a

extract_street_city_state(a) ==
  CASE a = BASE -> "1614 10th St S, Arlington, VA"
    [] a = T1 -> "123 Main Street Apt 4B, Springfield, VA"
    [] a = T2 -> "Apt 4"
    [] a = J1 -> "500 Oak Road Unit 2, Fairfax, VA"
    [] OTHER -> a

extract_street_zip(a) ==
  CASE a = BASE -> "1614 10th St S, 22204"
    [] a = T1 -> "123 Main Street Apt 4B, 22150"
    [] a = T2 -> "Apt 4"
    [] a = J1 -> "500 Oak Road Unit 2, 22030"
    [] OTHER -> a

variations_swapped(a) ==
  <<a, remove_unit(a), normalize_address(a), remove_secondary(a),
    extract_street_city_state(a), extract_street_zip(a)>>

variations(a) ==
  <<a, normalize_address(a), remove_unit(a), remove_secondary(a),
    extract_street_city_state(a), extract_street_zip(a)>>

\* ------------------------------------------------------ the HERE provider
\* What the geocoding provider answers for a query string when the call
\* goes through: the position of the first item, or <<>> when there is none.
ProviderPosition(q) ==
  CASE q = BASE -> <<13, -77>>
    [] q = "123 Main Street , Springfield, VA 22150" -> <<12, -77>>
    [] q = "500 Oak Road Unit 2, 22030" -> <<15, -77>>
    [] OTHER -> <<>>

\* Durations (seconds) the routing provider may report.
RouteSeconds == {61, 600}
RoutingOutcomes == RouteSeconds \cup {-1, -2}   \* -1 non-200, -2 exception

\* The duration the provider reports for a pair of points when the call goes
\* through: ten minutes from the company's base, 61 seconds from elsewhere.
ProviderDuration(o, d) == IF o = ProviderPosition(BASE) THEN 600 ELSE 61

CeilDiv(n, d) == (n + d - 1) \div d

RouteMinutes_floor(seconds) == seconds \div 60

RouteMinutes(seconds) == CeilDiv(seconds, 60)

Abs(x) == IF x < 0 THEN -x ELSE x

\* Haversine travel time for two points on one meridian (equal longitude):
\* there the central angle is |dlat| in radians, so
\* minutes = ceil(6371 * (pi/180) * |dlat| * 1.4 / 48.28 * 60)
\*         = ceil(6371 * 355 * 7 * 10 * |dlat| / (113 * 3 * 2414))
\* with pi = 355/113 (exact to the minute for the latitudes of the model).
HaversineMinutes(o, d) ==
  CeilDiv(6371 * 355 * 7 * 10 * Abs(d[1] - o[1]), 113 * 3 * 2414)

\* For antipodal points at latitude 8, 12 or 82 degrees the floating-point
\* sum a = sin^2(dlat/2) + cos(lat1) * cos(lat2) * sin^2(dlon/2) comes out
\* as 1.0000000000000002, and math.sqrt(1 - a) raises ValueError.
HaversineDomainError(o, d) ==
  /\ o[1] = -d[1]
  /\ Abs(o[2] - d[2]) = 180
  /\ Abs(o[1]) \in {8, 12, 82}

\* ------------------------------------------------------------------ state
VARIABLES
  here_api_key,       \* address_utils._here_api_key ("" is None)
  metrics_to_record,  \* metrics._metrics_to_record
  CURRENT_COMPANY,    \* lambda_function.CURRENT_COMPANY ("" is None)
  table,              \* items of QuickFixLocksmithJobs, in listing order
  flushed,            \* batch flush_metrics handed to its thread, in the
                      \* running invocation
  pc,                 \* position of the running invocation
  call,               \* locals of lambda_handler / find_earliest_locksmith
  calc,               \* locals of calculate_locksmith_eta
  trav,               \* locals of calculate_travel_time_with_coords
  fb,                 \* locals of calculate_travel_time_fallback
  geo,                \* locals of geocode_with_fuzzy_matching
  keyf,               \* locals of get_here_api_key
  response,           \* what the last invocation returned
  hist                \* history of the running invocation (observers only)

vars == <<here_api_key, metrics_to_record, CURRENT_COMPANY, table,
          flushed, pc, call, calc, trav, fb, geo, keyf, response, hist>>

globals == <<here_api_key, metrics_to_record, CURRENT_COMPANY>>
stores == <<table, flushed>>
frames == <<call, calc, trav, fb, geo, keyf>>

\* ------------------------------------------------------- technician store
NoBase == [address |-> "", coords |-> <<>>]

Job(est, tt, arrived, address, coords) ==
  [estimatedTime |-> est, travelTime |-> tt, arrived |-> arrived,
   address |-> address, coords |-> coords]

\* Queues a stored technician may have: empty; one arrived and one pending
\* job, the last with latitude/longitude (the antipode of the position the
\* provider gives for T1); one pending job without them.
JobQueues ==
  { <<>>,
    <<Job(20, 10, TRUE, J1, <<>>), Job(15, 5, FALSE, J1, <<-12, 103>>)>>,
    <<Job(15, 5, FALSE, J1, <<>>)>> }

TechIds == <<"L1", "L2", "L3">>

Tables ==
  UNION { { [i \in 1..n |-> [locksmithId |-> TechIds[i],
                              jobQueue |-> qs[i],
                              base_address |-> NoBase]] :
            qs \in [1..n -> JobQueues] } : n \in 0..MaxTechs }

TargetAddresses == {T1, T2}
Events ==
  [address : {""} \cup TargetAddresses, company : {"", "QuickFix", "Other"}]

\* ----------------------------------------------------------------- frames
NoResponse ==
  [kind |-> "none", statusCode |-> 0, error |-> "", locksmithId |-> "",
   etaMinutes |-> 0]

HttpError(code, error) ==
  [kind |-> "http", statusCode |-> code, error |-> error,
   locksmithId |-> "", etaMinutes |-> 0]

HttpOk(id, eta) ==
  [kind |-> "http", statusCode |-> 200, error |-> "", locksmithId |-> id,
   etaMinutes |-> eta]

\* What a direct caller of find_earliest_locksmith gets back.
Returned(id, eta) ==
  [kind |-> "returned", statusCode |-> 0, error |-> "", locksmithId |-> id,
   etaMinutes |-> eta]

Raised ==
  [kind |-> "raised", statusCode |-> 0, error |-> "", locksmithId |-> "",
   etaMinutes |-> 0]

IdleCall ==
  [entry |-> "none", address |-> "", company |-> "", locksmiths |-> <<>>,
   new_job_coords |-> <<>>, idx |-> 0, earliest_eta |-> INF,
   earliest_locksmith_id |-> "", earliest_travel_time |-> 0]

IdleCalc ==
  [address |-> "", coords |-> <<>>, workload |-> 0, eta |-> 0,
   travel_time |-> 0]

IdleTrav ==
  [origin_address |-> "", dest_address |-> "", origin_coords |-> <<>>,
   dest_coords |-> <<>>, api_key |-> "", suppliedO |-> FALSE,
   suppliedD |-> FALSE, firstGeoFailed |-> FALSE, routeCalled |-> FALSE,
   routeFailed |-> FALSE, seconds |-> 0, retryFailed |-> FALSE,
   geocoded |-> {}, usedO |-> <<>>, usedD |-> <<>>,
   kind |-> "none", result |-> 0, status |-> "idle"]

IdleFb == [origin_coords |-> <<>>, dest_coords |-> <<>>]

IdleGeo ==
  [addr |-> "", ret |-> "", api_key |-> "", i |-> 0, tried |-> <<>>,
   start |-> 0, result |-> <<>>, status |-> "idle"]

IdleKey == [ret |-> "", result |-> ""]

NewHist(n) ==
  [nreq |-> n, failures |-> 0, geoCalls |-> <<>>, cachePuts |-> <<>>,
   updates |-> <<>>, etas |-> <<>>, inTravel |-> FALSE,
   raisedInTravel |-> FALSE, scanned |-> FALSE, ssmCalls |-> 0,
   remaining |-> 0, dropped |-> 0]

Init ==
  /\ here_api_key = ""
  /\ metrics_to_record = <<>>
  /\ CURRENT_COMPANY = ""
  /\ table \in Tables
  /\ flushed = <<>>
  /\ pc = "idle"
  /\ call = IdleCall
  /\ calc = IdleCalc
  /\ trav = IdleTrav
  /\ fb = IdleFb
  /\ geo = IdleGeo
  /\ keyf = IdleKey
  /\ response = NoResponse
  /\ hist = NewHist(0)


\* ------------------------------------------------------ get_here_api_key
SsmOutcomes == {"ok", "ClientError", "error"}

\* The cached key is returned without a call; otherwise one get_parameter
\* call: its value is cached, a ClientError gives None, and any other
\* exception (BotoCoreError: no endpoint, timeout, ...) is not caught.
get_here_api_key ==
  /\ pc = "get_here_api_key"
  /\ IF here_api_key # ""
       THEN /\ keyf' = [keyf EXCEPT !.result = here_api_key]
            /\ pc' = keyf.ret
            /\ UNCHANGED <<here_api_key, hist>>
       ELSE \E out \in SsmOutcomes :
              CASE out = "ok" ->
                     /\ here_api_key' = HERE_KEY
                     /\ keyf' = [keyf EXCEPT !.result = HERE_KEY]
                     /\ pc' = keyf.ret
                     /\ hist' = [hist EXCEPT !.ssmCalls = @ + 1]
                [] out = "ClientError" ->
                     /\ hist.failures < MaxFailures
                     /\ keyf' = [keyf EXCEPT !.result = ""]
                     /\ pc' = keyf.ret
                     /\ hist' = [hist EXCEPT !.failures = @ + 1,
                                              !.ssmCalls = @ + 1]
                     /\ UNCHANGED here_api_key
                [] OTHER ->
                     /\ hist.failures < MaxFailures
                     /\ pc' = "raise"
                     /\ hist' = [hist EXCEPT
                                   !.failures = @ + 1,
                                   !.ssmCalls = @ + 1,
                                   !.raisedInTravel = hist.inTravel]
                     /\ UNCHANGED <<here_api_key, keyf>>
  /\ UNCHANGED <<metrics_to_record, CURRENT_COMPANY, stores, call, calc,
                 trav, fb, geo, response>>

propagate_exception_uncaught ==
  /\ pc = "raise"
  /\ pc' = "idle"
  /\ response' = Raised
  /\ UNCHANGED <<globals, stores, frames, hist>>

\* An exception nothing below the entry point catches.
propagate_exception ==
  /\ pc = "raise"
  /\ pc' = "idle"
  /\ response' = IF call.entry = "handler"
                   THEN HttpError(500, "internal")
                   ELSE Raised
  /\ UNCHANGED <<globals, stores, frames, hist>>

\* ------------------------------------------- geocode_with_fuzzy_matching
GeoFrame(addr, site) ==
  [addr |-> addr, ret |-> site, api_key |-> "", i |-> 0, tried |-> <<>>,
   start |-> Len(metrics_to_record), result |-> <<>>, status |-> "running"]

LogGeo(h, addr, site) ==
  [h EXCEPT !.geoCalls =
     Append(@, [addr |-> addr, site |-> site, tech |-> call.idx])]

GeoReturn(g, coords) == [g EXCEPT !.result = coords, !.status = "returned"]

record_geocoding_success(buffer, variation_type, success) ==
  Append(buffer, [variation_type |-> variation_type, success |-> success,
                  timestamp |-> hist.nreq])

\* One HTTP GET; `outage` is any transport failure, non-200 status or
\* unparsable body.
geocode_address(address, api_key, outage) ==
  IF address = "" \/ api_key = "" THEN <<>>
  ELSE IF outage THEN <<>>
  ELSE ProviderPosition(address)

geocode_with_fuzzy_matching ==
  /\ pc = "geocode_with_fuzzy_matching"
  /\ IF geo.addr = ""
       THEN /\ geo' = GeoReturn(geo, <<>>)
            /\ pc' = geo.ret
            /\ UNCHANGED keyf
       ELSE /\ keyf' = [ret |-> "geocode_key", result |-> ""]
            /\ pc' = "get_here_api_key"
            /\ UNCHANGED geo
  /\ UNCHANGED <<globals, stores, call, calc, trav, fb, response, hist>>

geocode_key ==
  /\ pc = "geocode_key"
  /\ IF keyf.result = ""
       THEN /\ geo' = GeoReturn(geo, <<>>)
            /\ pc' = geo.ret
       ELSE /\ geo' = [geo EXCEPT !.api_key = keyf.result, !.i = 1]
            /\ pc' = "geocode_loop"
  /\ UNCHANGED <<globals, stores, call, calc, trav, fb, keyf, response, hist>>

\* One iteration of the loop over the variations.
geocode_loop ==
  /\ pc = "geocode_loop"
  /\ IF geo.i > Len(variations(geo.addr))
       THEN /\ geo' = GeoReturn(geo, <<>>)
            /\ pc' = geo.ret
            /\ UNCHANGED <<metrics_to_record, hist>>
       ELSE LET v == variations(geo.addr)[geo.i] IN
            IF v = ""
              THEN /\ geo' = [geo EXCEPT !.i = @ + 1]
                   /\ pc' = "geocode_loop"
                   /\ UNCHANGED <<metrics_to_record, hist>>
              ELSE \E outage \in BOOLEAN :
                     /\ outage => hist.failures < MaxFailures
                     /\ hist' = [hist EXCEPT !.failures =
                                   IF outage THEN @ + 1 ELSE @]
                     /\ LET coords == geocode_address(v, geo.api_key, outage)
                            g == [geo EXCEPT !.tried = Append(@, geo.i)]
                        IN IF coords # <<>>
                             THEN /\ metrics_to_record' =
                                       record_geocoding_success(
                                         metrics_to_record,
                                         VARIATION_TYPES[geo.i], TRUE)
                                  /\ geo' = GeoReturn(g, coords)
                                  /\ pc' = geo.ret
                             ELSE /\ metrics_to_record' =
                                       record_geocoding_success(
                                         metrics_to_record,
                                         VARIATION_TYPES[geo.i], FALSE)
                                  /\ geo' = [g EXCEPT !.i = @ + 1]
                                  /\ pc' = "geocode_loop"
  /\ UNCHANGED <<here_api_key, CURRENT_COMPANY, stores, call, calc, trav,
                 fb, keyf, response>>


\* --------------------------------------- calculate_travel_time_with_coords
\* The call: the frame is set up and the first statement,
\* api_key = get_here_api_key(), is entered.
TravelFrame(oa, da, oc, dc) ==
  [IdleTrav EXCEPT !.origin_address = oa, !.dest_address = da,
                   !.origin_coords = oc, !.dest_coords = dc,
                   !.suppliedO = (oc # <<>>), !.suppliedD = (dc # <<>>),
                   !.status = "running"]

CallTravel(oa, da, oc, dc, h) ==
  /\ trav' = TravelFrame(oa, da, oc, dc)
  /\ fb' = IdleFb
  /\ keyf' = [ret |-> "travel_key", result |-> ""]
  /\ hist' = [h EXCEPT !.inTravel = TRUE]
  /\ pc' = "get_here_api_key"

TravelReturn(tr, kind, minutes) ==
  /\ trav' = [tr EXCEPT !.kind = kind, !.result = minutes,
                        !.status = "returned"]
  /\ hist' = [hist EXCEPT !.inTravel = FALSE]
  /\ pc' = "calculate_locksmith_eta_return"

\* calculate_travel_time_fallback(origin_address, dest_address, oc, dc)
CallFallback(tr, oc, dc) ==
  /\ trav' = tr
  /\ fb' = [origin_coords |-> oc, dest_coords |-> dc]
  /\ pc' = "calculate_travel_time_fallback"

\* A geocode_with_fuzzy_matching call made for one endpoint of the estimate.
GeocodeEndpoint(tr, endpoint, addr, site) ==
  /\ trav' = [tr EXCEPT !.geocoded = @ \cup {endpoint}]
  /\ geo' = GeoFrame(addr, site)
  /\ hist' = LogGeo(hist, addr, site)
  /\ pc' = "geocode_with_fuzzy_matching"

travel_key ==
  /\ pc = "travel_key"
  /\ trav' = [trav EXCEPT !.api_key = keyf.result]
  /\ pc' = "travel_origin"
  /\ UNCHANGED <<globals, stores, call, calc, fb, geo, keyf, response, hist>>

travel_origin ==
  /\ pc = "travel_origin"
  /\ IF trav.origin_coords # <<>>
       THEN /\ pc' = "travel_dest"
            /\ UNCHANGED <<trav, geo, hist>>
       ELSE GeocodeEndpoint(trav, "origin", trav.origin_address,
                            "travel_origin_geocoded")
  /\ UNCHANGED <<globals, stores, call, calc, fb, keyf, response>>

travel_origin_geocoded ==
  /\ pc = "travel_origin_geocoded"
  /\ IF geo.result = <<>>
       THEN CallFallback([trav EXCEPT !.firstGeoFailed = TRUE], <<>>, <<>>)
       ELSE /\ trav' = [trav EXCEPT !.origin_coords = geo.result]
            /\ pc' = "travel_dest"
            /\ UNCHANGED fb
  /\ UNCHANGED <<globals, stores, call, calc, geo, keyf, response, hist>>

travel_dest ==
  /\ pc = "travel_dest"
  /\ IF trav.dest_coords # <<>>
       THEN /\ pc' = "travel_route"
            /\ UNCHANGED <<trav, geo, hist>>
       ELSE GeocodeEndpoint(trav, "dest", trav.dest_address,
                            "travel_dest_geocoded")
  /\ UNCHANGED <<globals, stores, call, calc, fb, keyf, response>>

travel_dest_geocoded ==
  /\ pc = "travel_dest_geocoded"
  /\ IF geo.result = <<>>
       THEN CallFallback([trav EXCEPT !.firstGeoFailed = TRUE], <<>>, <<>>)
       ELSE /\ trav' = [trav EXCEPT !.dest_coords = geo.result]
            /\ pc' = "travel_route"
            /\ UNCHANGED fb
  /\ UNCHANGED <<globals, stores, call, calc, geo, keyf, response, hist>>

\* The routing call, made only with a key; anything but a 200 with a
\* readable duration falls through to the fallback with both coordinates.
travel_route ==
  /\ pc = "travel_route"
  /\ IF trav.api_key # ""
       THEN \E out \in {x \in RoutingOutcomes :
                           x \in RouteSeconds =>
                             x = ProviderDuration(trav.origin_coords,
                                                  trav.dest_coords)} :
              LET tr == [trav EXCEPT !.routeCalled = TRUE,
                                     !.usedO = trav.origin_coords,
                                     !.usedD = trav.dest_coords]
              IN IF out \in RouteSeconds
                   THEN /\ TravelReturn([tr EXCEPT !.seconds = out],
                                        "routing", RouteMinutes(out))
                        /\ UNCHANGED fb
                   ELSE /\ hist.failures < MaxFailures
                        /\ CallFallback([tr EXCEPT !.routeFailed = TRUE],
                                        trav.origin_coords, trav.dest_coords)
                        /\ hist' = [hist EXCEPT !.failures = @ + 1]
       ELSE /\ CallFallback(trav, trav.origin_coords, trav.dest_coords)
            /\ UNCHANGED hist
  /\ UNCHANGED <<globals, stores, call, calc, geo, keyf, response>>

\* ------------------------------------------ calculate_travel_time_fallback
calculate_travel_time_fallback ==
  /\ pc = "calculate_travel_time_fallback"
  /\ IF fb.origin_coords # <<>>
       THEN /\ pc' = "fallback_dest"
            /\ UNCHANGED <<trav, geo, hist>>
       ELSE GeocodeEndpoint(trav, "origin", trav.origin_address,
                            "fallback_origin_geocoded")
  /\ UNCHANGED <<globals, stores, call, calc, fb, keyf, response>>

fallback_origin_geocoded ==
  /\ pc = "fallback_origin_geocoded"
  /\ IF geo.result = <<>>
       THEN /\ TravelReturn([trav EXCEPT !.retryFailed = TRUE], "default",
                            DEFAULT_TRAVEL_MINUTES)
            /\ UNCHANGED fb
       ELSE /\ fb' = [fb EXCEPT !.origin_coords = geo.result]
            /\ pc' = "fallback_dest"
            /\ UNCHANGED <<trav, hist>>
  /\ UNCHANGED <<globals, stores, call, calc, geo, keyf, response>>

fallback_dest ==
  /\ pc = "fallback_dest"
  /\ IF fb.dest_coords # <<>>
       THEN /\ pc' = "fallback_haversine"
            /\ UNCHANGED <<trav, geo, hist>>
       ELSE GeocodeEndpoint(trav, "dest", trav.dest_address,
                            "fallback_dest_geocoded")
  /\ UNCHANGED <<globals, stores, call, calc, fb, keyf, response>>

fallback_dest_geocoded ==
  /\ pc = "fallback_dest_geocoded"
  /\ IF geo.result = <<>>
       THEN /\ TravelReturn([trav EXCEPT !.retryFailed = TRUE], "default",
                            DEFAULT_TRAVEL_MINUTES)
            /\ UNCHANGED fb
       ELSE /\ fb' = [fb EXCEPT !.dest_coords = geo.result]
            /\ pc' = "fallback_haversine"
            /\ UNCHANGED <<trav, hist>>
  /\ UNCHANGED <<globals, stores, call, calc, geo, keyf, response>>

fallback_haversine ==
  /\ pc = "fallback_haversine"
  /\ IF HaversineDomainError(fb.origin_coords, fb.dest_coords)
       THEN /\ pc' = "raise"
            /\ hist' = [hist EXCEPT !.raisedInTravel = TRUE]
            /\ UNCHANGED trav
       ELSE TravelReturn([trav EXCEPT !.usedO = fb.origin_coords,
                                      !.usedD = fb.dest_coords],
                         "haversine",
                         HaversineMinutes(fb.origin_coords, fb.dest_coords))
  /\ UNCHANGED <<globals, stores, call, calc, fb, geo, keyf, response>>


\* ------------------------------------------------ calculate_locksmith_eta
RECURSIVE workload_counting_arrived(_)
workload_counting_arrived(job_queue) ==
  IF job_queue = <<>> THEN 0
  ELSE Head(job_queue).estimatedTime + Head(job_queue).travelTime
       + workload_counting_arrived(Tail(job_queue))

\* The loop over the queue: every job's estimatedTime, and its travelTime
\* unless the job has arrived.
RECURSIVE workload_minutes(_)
workload_minutes(job_queue) ==
  IF job_queue = <<>> THEN 0
  ELSE Head(job_queue).estimatedTime
       + (IF ~Head(job_queue).arrived THEN Head(job_queue).travelTime ELSE 0)
       + workload_minutes(Tail(job_queue))

calculate_locksmith_eta ==
  /\ pc = "calculate_locksmith_eta"
  /\ LET locksmith == call.locksmiths[call.idx]
         company_name == CURRENT_COMPANY
         job_queue == locksmith.jobQueue
     IN IF job_queue = <<>>
          THEN IF locksmith.base_address # NoBase
                 THEN /\ calc' = [IdleCalc EXCEPT
                                    !.address = locksmith.base_address.address,
                                    !.coords = locksmith.base_address.coords]
                      /\ CallTravel(locksmith.base_address.address,
                                    call.address,
                                    locksmith.base_address.coords,
                                    call.new_job_coords, hist)
                      /\ UNCHANGED geo
                 ELSE LET base_address ==
                            LOCKSMITH_BASE_ADDRESSES(company_name)
                      IN IF base_address = ""
                           THEN /\ calc' = [IdleCalc EXCEPT !.eta = INF,
                                                            !.travel_time = 0]
                                /\ pc' = "find_compare"
                                /\ UNCHANGED <<trav, fb, geo, keyf, hist>>
                           ELSE /\ calc' = [IdleCalc EXCEPT
                                              !.address = base_address]
                                /\ geo' = GeoFrame(base_address,
                                                   "calc_base_geocoded")
                                /\ hist' = LogGeo(hist, base_address,
                                                  "calc_base_geocoded")
                                /\ pc' = "geocode_with_fuzzy_matching"
                                /\ UNCHANGED <<trav, fb, keyf>>
          ELSE LET last_job == job_queue[Len(job_queue)] IN
               /\ calc' = [IdleCalc EXCEPT
                             !.workload = workload_minutes(job_queue),
                             !.address = last_job.address,
                             !.coords = last_job.coords]
               /\ CallTravel(last_job.address, call.address, last_job.coords,
                             call.new_job_coords, hist)
               /\ UNCHANGED geo
  /\ UNCHANGED <<globals, stores, call, response>>

calc_base_geocoded ==
  /\ pc = "calc_base_geocoded"
  /\ calc' = [calc EXCEPT !.coords = geo.result]
  /\ IF geo.result # <<>>
       THEN /\ pc' = "update_item"
            /\ UNCHANGED <<trav, fb, keyf, hist>>
       ELSE CallTravel(calc.address, call.address, geo.result,
                       call.new_job_coords, hist)
  /\ UNCHANGED <<globals, stores, call, geo, response>>

\* table.update_item(Key = locksmithId, set base_address = :b); a failure
\* is logged and the computation goes on.
update_item ==
  /\ pc = "update_item"
  /\ \E ok \in BOOLEAN :
       LET id == call.locksmiths[call.idx].locksmithId
           base_address == [address |-> calc.address, coords |-> calc.coords]
       IN /\ ~ok => hist.failures < MaxFailures
          /\ table' = IF ok
                        THEN [i \in DOMAIN table |->
                                IF table[i].locksmithId = id
                                  THEN [table[i] EXCEPT
                                          !.base_address = base_address]
                                  ELSE table[i]]
                        ELSE table
          /\ CallTravel(calc.address, call.address, calc.coords,
                        call.new_job_coords,
                        [hist EXCEPT
                           !.failures = IF ok THEN @ ELSE @ + 1,
                           !.updates =
                             Append(@, [locksmithId |-> id,
                                        base_address |-> base_address,
                                        ok |-> ok])])
  /\ UNCHANGED <<globals, flushed, call, calc, geo, response>>

calculate_locksmith_eta_return ==
  /\ pc = "calculate_locksmith_eta_return"
  /\ calc' = [calc EXCEPT !.eta = calc.workload + trav.result,
                          !.travel_time = trav.result]
  /\ pc' = "find_compare"
  /\ UNCHANGED <<globals, stores, call, trav, fb, geo, keyf, response, hist>>


\* ------------------------------------------------ find_earliest_locksmith
find_earliest_locksmith ==
  /\ pc = "find_earliest_locksmith"
  /\ IF call.locksmiths = <<>>
       THEN /\ pc' = "find_return"
            /\ UNCHANGED <<geo, hist>>
       ELSE /\ geo' = GeoFrame(call.address, "find_geocoded")
            /\ hist' = LogGeo(hist, call.address, "find_geocoded")
            /\ pc' = "geocode_with_fuzzy_matching"
  /\ UNCHANGED <<globals, stores, call, calc, trav, fb, keyf, response>>

find_geocoded ==
  /\ pc = "find_geocoded"
  /\ call' = [call EXCEPT !.new_job_coords = geo.result,
                          !.earliest_eta = INF,
                          !.earliest_locksmith_id = "",
                          !.earliest_travel_time = 0,
                          !.idx = 1]
  /\ pc' = "find_loop"
  /\ UNCHANGED <<globals, stores, calc, trav, fb, geo, keyf, response, hist>>

find_loop ==
  /\ pc = "find_loop"
  /\ pc' = IF call.idx <= Len(call.locksmiths)
             THEN "calculate_locksmith_eta"
             ELSE "update_next_available_cache"
  /\ UNCHANGED <<globals, stores, frames, response, hist>>

UpdateEarliest_last_wins(c, id, eta, travel_time) ==
  IF eta <= c.earliest_eta
    THEN [c EXCEPT !.earliest_eta = eta, !.earliest_locksmith_id = id,
                   !.earliest_travel_time = travel_time]
    ELSE c

UpdateEarliest_caching_eta(c, id, eta, travel_time) ==
  IF eta < c.earliest_eta
    THEN [c EXCEPT !.earliest_eta = eta, !.earliest_locksmith_id = id,
                   !.earliest_travel_time = eta]
    ELSE c

UpdateEarliest(c, id, eta, travel_time) ==
  IF eta < c.earliest_eta
    THEN [c EXCEPT !.earliest_eta = eta, !.earliest_locksmith_id = id,
                   !.earliest_travel_time = travel_time]
    ELSE c

find_compare ==
  /\ pc = "find_compare"
  /\ call' = [UpdateEarliest(call, call.locksmiths[call.idx].locksmithId,
                             calc.eta, calc.travel_time)
                EXCEPT !.idx = call.idx + 1]
  /\ hist' = [hist EXCEPT !.etas =
                Append(@, [eta |-> calc.eta, travel_time |-> calc.travel_time,
                           origin |-> calc.address])]
  /\ pc' = "find_loop"
  /\ UNCHANGED <<globals, stores, calc, trav, fb, geo, keyf, response>>

CACHE_TTL_SECONDS == 300

after_put_item_uncaught(ok) == IF ok THEN "find_return" ELSE "raise"

\* `except Exception` around the put: the function returns normally either
\* way.
after_put_item(ok) == "find_return"

\* put_item of the company's entry; a failure is only logged.  The cache
\* table is never read back, so the model keeps the calls of the running
\* invocation (hist.cachePuts) and not the table.
update_next_available_cache ==
  /\ pc = "update_next_available_cache"
  /\ \E ok \in BOOLEAN :
       LET cache_item ==
             [companyName |-> CURRENT_COMPANY,
              locksmithId |-> call.earliest_locksmith_id,
              travelTime |-> call.earliest_travel_time,
              jobAddress |-> call.address,
              coords |-> call.new_job_coords,
              ttl |-> CACHE_TTL_SECONDS]
       IN /\ ~ok => hist.failures < MaxFailures
          /\ hist' = [hist EXCEPT
                        !.failures = IF ok THEN @ ELSE @ + 1,
                        !.cachePuts =
                          Append(@, [item |-> cache_item, ok |-> ok])]
          /\ pc' = after_put_item(ok)
  /\ UNCHANGED <<globals, stores, frames, response>>

\* ---------------------------------------------------------- flush_metrics
RemainingMillis == {50, 5000}

flush_metrics_regardless(remaining) ==
  IF metrics_to_record = <<>>
    THEN UNCHANGED <<metrics_to_record, flushed>>
    ELSE /\ flushed' = metrics_to_record
         /\ metrics_to_record' = <<>>

\* Nothing to do for an empty buffer; with under 100 ms left the buffer is
\* emptied and nothing is sent; otherwise the buffer is emptied and its
\* copy handed to a detached thread that invokes the function again.
flush_metrics(remaining) ==
  IF metrics_to_record = <<>>
    THEN UNCHANGED <<metrics_to_record, flushed>>
    ELSE IF remaining < LOW_TIME_MS
           THEN /\ metrics_to_record' = <<>>
                /\ UNCHANGED flushed
           ELSE /\ flushed' = metrics_to_record
                /\ metrics_to_record' = <<>>

\* --------------------------------------------------------- lambda_handler
NoLocksmiths_never(locksmiths) == FALSE

NoLocksmiths(locksmiths) == locksmiths = <<>>

\* A dispatch request: parameters are checked, the company recorded, the
\* table looked up.
lambda_handler ==
  /\ pc = "idle"
  /\ hist.nreq < MaxRequests
  /\ \E event \in Events :
       /\ call' = [IdleCall EXCEPT !.entry = "handler",
                                   !.address = event.address,
                                   !.company = event.company]
       /\ IF event.address = ""
            THEN /\ response' = HttpError(400, "missing_address")
                 /\ pc' = "idle"
                 /\ UNCHANGED CURRENT_COMPANY
            ELSE IF event.company = ""
              THEN /\ response' = HttpError(400, "missing_company")
                   /\ pc' = "idle"
                   /\ UNCHANGED CURRENT_COMPANY
              ELSE /\ CURRENT_COMPANY' = event.company
                   /\ IF COMPANY_TABLE_MAPPING(event.company) = ""
                        THEN /\ response' = HttpError(400, "unknown_company")
                             /\ pc' = "idle"
                        ELSE /\ response' = NoResponse
                             /\ pc' = "get_locksmiths"
  /\ calc' = IdleCalc
  /\ trav' = IdleTrav
  /\ fb' = IdleFb
  /\ geo' = IdleGeo
  /\ keyf' = IdleKey
  /\ hist' = [NewHist(hist.nreq + 1) EXCEPT !.failures = hist.failures]
  /\ flushed' = <<>>
  /\ UNCHANGED <<here_api_key, metrics_to_record, table>>

\* table.scan(); an exception gives the empty list.
get_locksmiths ==
  /\ pc = "get_locksmiths"
  /\ \E ok \in BOOLEAN :
       LET locksmiths == IF ok THEN table ELSE <<>> IN
       /\ ~ok => hist.failures < MaxFailures
       /\ hist' = [hist EXCEPT !.failures = IF ok THEN @ ELSE @ + 1,
                                 !.scanned = TRUE]
       /\ call' = [call EXCEPT !.locksmiths = locksmiths]
       /\ IF NoLocksmiths(locksmiths)
            THEN /\ response' = HttpError(404, "no_locksmiths")
                 /\ pc' = "idle"
            ELSE /\ response' = NoResponse
                 /\ pc' = "find_earliest_locksmith"
  /\ UNCHANGED <<globals, stores, calc, trav, fb, geo, keyf>>

lambda_handler_respond ==
  /\ pc = "find_return"
  /\ call.entry = "handler"
  /\ response' = HttpOk(call.earliest_locksmith_id, call.earliest_eta)
  /\ \E remaining \in RemainingMillis :
       /\ flush_metrics(remaining)
       /\ hist' = [hist EXCEPT
                     !.remaining = remaining,
                     !.dropped = IF remaining < LOW_TIME_MS
                                   THEN Len(metrics_to_record) ELSE 0]
  /\ pc' = "idle"
  /\ UNCHANGED <<here_api_key, CURRENT_COMPANY, table, frames>>

\* find_earliest_locksmith called on its own, once, in a fresh process, with
\* the technicians of the table (or none).
direct_dispatch ==
  /\ pc = "idle"
  /\ hist.nreq = 0
  /\ \E address \in TargetAddresses, empty \in BOOLEAN :
       call' = [IdleCall EXCEPT !.entry = "direct", !.address = address,
                                !.company = CURRENT_COMPANY,
                                !.locksmiths = IF empty THEN <<>> ELSE table]
  /\ response' = NoResponse
  /\ calc' = IdleCalc
  /\ trav' = IdleTrav
  /\ fb' = IdleFb
  /\ geo' = IdleGeo
  /\ keyf' = IdleKey
  /\ hist' = NewHist(hist.nreq + 1)
  /\ pc' = "find_earliest_locksmith"
  /\ UNCHANGED <<globals, stores>>

direct_return ==
  /\ pc = "find_return"
  /\ call.entry = "direct"
  /\ response' = Returned(call.earliest_locksmith_id, call.earliest_eta)
  /\ pc' = "idle"
  /\ UNCHANGED <<globals, stores, frames, hist>>

\* Every step below the two entry points.
Dispatch ==
  \/ find_earliest_locksmith
  \/ find_geocoded
  \/ find_loop
  \/ find_compare
  \/ update_next_available_cache
  \/ calculate_locksmith_eta
  \/ calculate_locksmith_eta_return
  \/ travel_key
  \/ travel_origin
  \/ travel_origin_geocoded
  \/ travel_dest
  \/ travel_dest_geocoded
  \/ travel_route
  \/ calculate_travel_time_fallback
  \/ fallback_origin_geocoded
  \/ fallback_dest
  \/ fallback_dest_geocoded
  \/ fallback_haversine
  \/ geocode_with_fuzzy_matching
  \/ geocode_key
  \/ geocode_loop
  \/ get_here_api_key
  \/ propagate_exception

\* The deployed function: every invocation enters through lambda_handler.
Next ==
  \/ lambda_handler
  \/ get_locksmiths
  \/ lambda_handler_respond
  \/ calc_base_geocoded
  \/ update_item
  \/ Dispatch

Spec == Init /\ [][Next]_vars

\* The dispatcher called on its own in a fresh process, where
\* CURRENT_COMPANY is still None and so no base address is configured.
NextDirect ==
  \/ direct_dispatch
  \/ direct_return
  \/ Dispatch

SpecDirect == Init /\ [][NextDirect]_vars


\* ================================================================ claims
RECURSIVE SumOver(_, _)
\* The end of a successful request taken on its own: the dispatcher has
\* returned and the buffer holds any events, or none.
MetricEvents ==
  [variation_type : {VARIATION_TYPES[k] : k \in DOMAIN VARIATION_TYPES},
   success : BOOLEAN, timestamp : {1}]

Buffers ==
  {<<>>} \cup {<<e>> : e \in MetricEvents}
         \cup {<<e, f>> : e \in MetricEvents, f \in MetricEvents}

InitFlush ==
  /\ here_api_key = HERE_KEY
  /\ metrics_to_record \in Buffers
  /\ CURRENT_COMPANY = "QuickFix"
  /\ table \in {t \in Tables : Len(t) = 1}
  /\ flushed = <<>>
  /\ pc = "find_return"
  /\ \E eta \in {2, 22} :
       call = [IdleCall EXCEPT !.entry = "handler", !.address = T1,
                               !.company = "QuickFix",
                               !.locksmiths = table,
                               !.earliest_eta = eta,
                               !.earliest_locksmith_id = "L1"]
  /\ calc = IdleCalc
  /\ trav = IdleTrav
  /\ fb = IdleFb
  /\ geo = IdleGeo
  /\ keyf = IdleKey
  /\ response = NoResponse
  /\ hist = NewHist(1)

NextFlush == lambda_handler_respond

SpecFlush == InitFlush /\ [][NextFlush]_vars

SumOver(S, f) ==
  IF S = {} THEN 0
  ELSE LET x == CHOOSE y \in S : TRUE IN f[x] + SumOver(S \ {x}, f)

MinEta(etas) ==
  CHOOSE m \in {etas[i].eta : i \in DOMAIN etas} :
    \A i \in DOMAIN etas : m <= etas[i].eta

FirstWith(etas, m) ==
  CHOOSE i \in DOMAIN etas :
    /\ etas[i].eta = m
    /\ \A j \in DOMAIN etas : etas[j].eta = m => i <= j

\* The order of the address variants as the claim declares it.
DeclaredVariants(a) ==
  <<a, normalize_address(a), remove_unit(a), remove_secondary(a),
    extract_street_city_state(a), extract_street_zip(a)>>

DeclaredTypes ==
  <<"original", "normalized", "no_unit", "no_secondary",
    "street_city_state", "street_zip">>

NonEmptyUpTo(a, k) ==
  SelectSeq([j \in 1..k |-> j], LAMBDA j : DeclaredVariants(a)[j] # "")

GeocodeJustReturned == pc = geo.ret /\ geo.status = "returned"

EventsOfGeocode ==
  SubSeq(metrics_to_record, geo.start + 1, Len(metrics_to_record))

\* C1: a geocode_with_fuzzy_matching call that returns coordinates has
\* called the provider once for each non-empty variant up to the successful
\* one, in the declared order and for no later variant; the coordinates are
\* those of the successful variant's call; and the metric events it added
\* are one failure per earlier attempt followed by one success, each tagged
\* with its variant type.  A call that had a key and returns None has tried
\* every non-empty variant once and recorded a failure for each.
C1_FirstSuccessWins ==
  GeocodeJustReturned =>
    LET n == Len(geo.tried)
        events == EventsOfGeocode
    IN /\ geo.result # <<>> =>
            /\ n >= 1
            /\ geo.tried = NonEmptyUpTo(geo.addr, geo.tried[n])
            /\ geo.result =
                 ProviderPosition(DeclaredVariants(geo.addr)[geo.tried[n]])
            /\ Len(events) = n
            /\ \A j \in 1..n :
                 /\ events[j].variation_type = DeclaredTypes[geo.tried[j]]
                 /\ events[j].success = (j = n)
       /\ (geo.result = <<>> /\ geo.api_key # "") =>
            /\ geo.tried = NonEmptyUpTo(geo.addr, 6)
            /\ Len(events) = n
            /\ \A j \in 1..n :
                 /\ events[j].variation_type = DeclaredTypes[geo.tried[j]]
                 /\ events[j].success = FALSE

\* C1 witness: the target of the spec's scenario resolved by NoUnit after
\* Original and Normalized failed (2 failed + 1 success).
C1_Witness ==
  /\ GeocodeJustReturned
  /\ geo.addr = T1
  /\ geo.tried = <<1, 2, 3>>
  /\ geo.result = <<12, -77>>
  /\ Len(EventsOfGeocode) = 3

TargetGeocodes ==
  {i \in DOMAIN hist.geoCalls : hist.geoCalls[i].addr = call.address}

\* C2: during one dispatch over a non-empty technician list the Geocoder is
\* invoked for the target address exactly once, by the dispatcher itself,
\* and never again by a technician's evaluation.
C2_TargetGeocodedOnce ==
  /\ \A i \in TargetGeocodes : hist.geoCalls[i].site = "find_geocoded"
  /\ (pc = "find_return" /\ call.locksmiths # <<>>) =>
        Cardinality(TargetGeocodes) = 1

\* C3: in the travel estimator, an endpoint whose coordinates were supplied
\* is never geocoded, on the primary or the fallback path, and an estimate
\* computed from coordinates uses the supplied ones.
C3_SuppliedCoordsNeverGeocoded ==
  /\ trav.suppliedO => "origin" \notin trav.geocoded
  /\ trav.suppliedD => "dest" \notin trav.geocoded
  /\ (trav.status = "returned" /\ trav.kind \in {"routing", "haversine"}) =>
        /\ trav.suppliedO => trav.usedO = trav.origin_coords
        /\ trav.suppliedD => trav.usedD = trav.dest_coords

TravelReturned == trav.status = "returned"

RoundedUp(minutes, seconds) ==
  minutes * 60 >= seconds /\ (minutes - 1) * 60 < seconds

C5_DegradationAbsorbed ==
  /\ ~hist.raisedInTravel
  /\ (response.kind = "http" /\ hist.scanned /\ call.locksmiths # <<>>) =>
        response.statusCode # 500


\* The workload as the claim states it: every queued job's estimatedTime,
\* plus the travelTime of the jobs that have not arrived.
DeclaredWorkload(q) ==
  SumOver(DOMAIN q, [i \in DOMAIN q |-> q[i].estimatedTime])
  + SumOver({i \in DOMAIN q : ~q[i].arrived},
            [i \in DOMAIN q |-> q[i].travelTime])

EffectiveOrigin(locksmith) ==
  IF locksmith.jobQueue # <<>>
    THEN locksmith.jobQueue[Len(locksmith.jobQueue)].address
    ELSE IF locksmith.base_address # NoBase
           THEN locksmith.base_address.address
           ELSE LOCKSMITH_BASE_ADDRESSES(CURRENT_COMPANY)

Evaluated == pc = "find_compare"

\* C6: for a technician that is not excluded, calculate_locksmith_eta
\* returns eta = workload + travel, where travel is the travel estimator's
\* result from the effective origin to the target and workload is the sum
\* of estimatedTime over all queued jobs plus travelTime over the jobs not
\* yet arrived; an empty queue gives the travel estimate alone, and the
\* queue (arrived 10/20, pending 5/15) gives workload 40.
C6_EtaIsWorkloadPlusTravel ==
  (Evaluated /\ calc.eta # INF) =>
    LET locksmith == call.locksmiths[call.idx]
        q == locksmith.jobQueue
    IN /\ trav.status = "returned"
       /\ trav.origin_address = EffectiveOrigin(locksmith)
       /\ trav.dest_address = call.address
       /\ calc.travel_time = trav.result
       /\ calc.eta = DeclaredWorkload(q) + trav.result
       /\ q = <<>> => calc.eta = trav.result
       /\ q = <<Job(20, 10, TRUE, J1, <<>>), Job(15, 5, FALSE, J1, <<-12, 103>>)>>
            => calc.eta = 40 + trav.result

\* C6 witness: a technician with one arrived and one pending job evaluated,
\* workload 40.
C6_Witness ==
  /\ Evaluated
  /\ Len(call.locksmiths[call.idx].jobQueue) = 2
  /\ call.locksmiths[call.idx].jobQueue[1].arrived
  /\ calc.workload = 40
  /\ calc.eta = 40 + trav.result

DispatchFinished ==
  pc \in {"update_next_available_cache", "find_return"}
  /\ call.locksmiths # <<>>

\* C7: the dispatcher evaluates every technician in listing order and
\* returns the minimum ETA over all of them with the technician that has
\* it; among technicians sharing the minimum the first in the listing is
\* returned.
C7_MinimumFirstWins ==
  DispatchFinished =>
    /\ Len(hist.etas) = Len(call.locksmiths)
    /\ \A i \in DOMAIN hist.etas :
         hist.etas[i].origin \in {EffectiveOrigin(call.locksmiths[i]), ""}
    /\ call.earliest_eta = MinEta(hist.etas)
    /\ MinEta(hist.etas) < INF =>
         /\ call.earliest_locksmith_id =
              call.locksmiths[FirstWith(hist.etas, MinEta(hist.etas))]
                .locksmithId
         /\ call.earliest_travel_time =
              hist.etas[FirstWith(hist.etas, MinEta(hist.etas))].travel_time

\* C7 witness: two technicians with the same finite ETA, the first returned.
C7_Witness ==
  /\ pc = "find_return"
  /\ Len(hist.etas) = 2
  /\ hist.etas[1].eta = hist.etas[2].eta
  /\ hist.etas[1].eta < INF
  /\ call.earliest_locksmith_id = "L1"

\* C8: when the scan yields no technician (an empty table or a failed
\* scan) the request ends at once with the not-found response, and neither
\* the geocoder nor the cache writer is called.
C8_NoTechniciansNotFound ==
  (call.entry = "handler" /\ hist.scanned /\ call.locksmiths = <<>>) =>
    /\ pc = "idle"
    /\ response = HttpError(404, "no_locksmiths")
    /\ hist.geoCalls = <<>>
    /\ hist.cachePuts = <<>>

\* C8 witness: a failed scan of a table that has technicians ends in 404.
C8_Witness ==
  /\ call.entry = "handler"
  /\ hist.scanned
  /\ call.locksmiths = <<>>
  /\ table # <<>>
  /\ response.statusCode = 404

AllInfinite ==
  /\ call.locksmiths # <<>>
  /\ Len(hist.etas) = Len(call.locksmiths)
  /\ \A i \in DOMAIN hist.etas : hist.etas[i].eta = INF

\* C9: a technician with an empty queue, no stored base location and no
\* base address configured for the company evaluates to (infinity, 0) and is
\* never the one selected; when every technician is infinite the dispatcher
\* returns (None, infinity) and still makes exactly one cache write, whose
\* technician id is None.
C9_AllInfiniteNoWinner ==
  /\ Evaluated =>
       LET locksmith == call.locksmiths[call.idx] IN
       (/\ locksmith.jobQueue = <<>>
        /\ locksmith.base_address = NoBase
        /\ LOCKSMITH_BASE_ADDRESSES(CURRENT_COMPANY) = "")
         => (calc.eta = INF /\ calc.travel_time = 0)
  /\ \A i \in DOMAIN hist.etas :
       hist.etas[i].eta = INF =>
         call.earliest_locksmith_id # call.locksmiths[i].locksmithId
  /\ (pc = "find_return" /\ AllInfinite) =>
       /\ call.earliest_locksmith_id = ""
       /\ call.earliest_eta = INF
       /\ Len(hist.cachePuts) = 1
       /\ hist.cachePuts[1].item.locksmithId = ""
  /\ (pc = "idle" /\ response.kind = "returned" /\ AllInfinite) =>
       response = Returned("", INF)

\* C9 witness: a dispatch over two technicians, both infinite, has returned
\* no winner after one cache write.
C9_Witness ==
  /\ pc = "idle"
  /\ response = Returned("", INF)
  /\ AllInfinite
  /\ Len(call.locksmiths) = 2
  /\ Len(hist.cachePuts) = 1

HadBase(i) ==
  /\ call.locksmiths[i].jobQueue = <<>>
  /\ call.locksmiths[i].base_address # NoBase
  /\ call.locksmiths[i].base_address.coords # <<>>

\* C10: once a technician record carries a base location, an evaluation of
\* that technician with an empty queue uses the stored coordinates as
\* origin, never invokes the Geocoder for the base address and never writes
\* the base location again; and the base location is written only after a
\* successful geocoding of the configured base address.
C10_BaseLocationWriteOnce ==
  /\ \A k \in DOMAIN hist.geoCalls :
       LET g == hist.geoCalls[k] IN
       (g.tech \in DOMAIN call.locksmiths /\ HadBase(g.tech)) =>
          g.addr # call.locksmiths[g.tech].base_address.address
  /\ \A k \in DOMAIN hist.updates :
       LET u == hist.updates[k] IN
       /\ u.base_address.coords # <<>>
       /\ u.base_address.address = LOCKSMITH_BASE_ADDRESSES(CURRENT_COMPANY)
       /\ \A i \in DOMAIN call.locksmiths :
            call.locksmiths[i].locksmithId = u.locksmithId =>
              call.locksmiths[i].base_address = NoBase
  /\ (Evaluated /\ HadBase(call.idx)
        /\ trav.kind \in {"routing", "haversine"}) =>
       trav.usedO = call.locksmiths[call.idx].base_address.coords

\* C11: a failed persistence write changes nothing but the store: whether
\* the base-address update succeeds or fails, the travel estimate is entered
\* with the coordinates just geocoded and the dispatcher's state, the
\* response and the process-local state are untouched; whether the cache
\* put succeeds or fails, find_earliest_locksmith returns the selection it
\* had made, and the handler answers 200 with that technician and ETA.
C11_WriteFailureKeepsResult ==
  [][ /\ pc = "update_item" =>
           /\ pc' = "get_here_api_key"
           /\ keyf'.ret = "travel_key"
           /\ trav' = TravelFrame(calc.address, call.address, calc.coords,
                                  call.new_job_coords)
           /\ <<call, calc, response, globals>>' =
                <<call, calc, response, globals>>
      /\ pc = "update_next_available_cache" =>
           /\ pc' = "find_return"
           /\ <<call, calc, response, globals>>' =
                <<call, calc, response, globals>>
      /\ (pc = "find_return" /\ call.entry = "handler") =>
           response' = HttpOk(call.earliest_locksmith_id, call.earliest_eta)
    ]_vars

\* C11 witness: a request whose base-address update failed has ended with
\* 200 and the technician whose update failed as the one selected.
C11_Witness ==
  /\ pc = "idle"
  /\ response.kind = "http"
  /\ response.statusCode = 200
  /\ \E k \in DOMAIN hist.updates :
       /\ ~hist.updates[k].ok
       /\ hist.updates[k].locksmithId = response.locksmithId

\* A dispatch request has ended, with any outcome.
RequestEnded == pc = "idle" /\ response.kind = "http"

\* C12: metric events are drained exactly once per request: the batch
\* handed to the sink by a request holds only events recorded during that
\* request, and the buffer is empty whenever a request has ended, so that no
\* event can be handed over a second time.
C12_MetricsDrainedOncePerRequest ==
  /\ \A k \in DOMAIN flushed : flushed[k].timestamp = hist.nreq
  /\ RequestEnded => metrics_to_record = <<>>

\* C13: a request answered 400 (missing address, missing company, unknown
\* company) has no side effect: the store is neither scanned nor updated,
\* nothing is geocoded, cached, recorded or flushed, and the credential
\* cache, the metric buffer and the current-company variable keep their
\* values.
C13_ValidationNoSideEffects ==
  [][ (pc = "idle" /\ response'.kind = "http"
         /\ response'.statusCode = 400) =>
        /\ pc' = "idle"
        /\ table' = table
        /\ flushed' = <<>>
        /\ ~hist'.scanned
        /\ hist'.geoCalls = <<>>
        /\ hist'.updates = <<>>
        /\ hist'.cachePuts = <<>>
        /\ here_api_key' = here_api_key
        /\ metrics_to_record' = metrics_to_record
        /\ CURRENT_COMPANY' = CURRENT_COMPANY
    ]_vars

\* C14: the entry point always ends with a structured response: an
\* exception raised during dispatch is caught by the handler and answered
\* with 500, no exception leaves the handler, and a request ends with
\* exactly one of 200 (the dispatcher returned), 400 (rejected on entry),
\* 404 (empty scan) and 500 (exception).
C14_AlwaysStructuredResponse ==
  [][ /\ response'.kind \in {"none", "http"}
      /\ pc' = "idle" =>
           /\ response'.kind = "http"
           /\ response'.statusCode \in {200, 400, 404, 500}
      /\ pc' # "idle" => response'.kind = "none"
      /\ pc = "raise" =>
           /\ pc' = "idle"
           /\ response' = HttpError(500, "internal")
      /\ response'.statusCode = 500 => pc = "raise"
      /\ response'.statusCode = 200 => pc = "find_return"
      /\ response'.statusCode = 404 => pc = "get_locksmiths"
      /\ response'.statusCode = 400 => pc = "idle"
    ]_vars

\* C14 witness: an exception raised while the second technician was being
\* evaluated has been answered with 500.
C14_Witness ==
  /\ RequestEnded
  /\ response.statusCode = 500
  /\ hist.raisedInTravel
  /\ Len(hist.etas) = 1

\* The technician a dispatch over the recorded evaluations selects.
Winner == FirstWith(hist.etas, MinEta(hist.etas))

\* C15: the dispatcher writes the cache entry once, and only after every
\* technician of the list has been evaluated; the entry carries the
\* requesting company, the selected technician's id, that technician's
\* travel time, the target address, the target coordinates the dispatcher
\* resolved (none when it could not) and the 5-minute expiry.
C15_CacheEntryOfWinner ==
  /\ Len(hist.cachePuts) <= 1
  /\ hist.cachePuts # <<>> =>
       /\ pc \in {"find_return", "idle"}
       /\ Len(hist.etas) = Len(call.locksmiths)
  /\ (pc = "find_return" /\ call.locksmiths # <<>>
        /\ MinEta(hist.etas) < INF) =>
       /\ Len(hist.cachePuts) = 1
       /\ hist.cachePuts[1].item =
            [companyName |-> call.company,
             locksmithId |-> call.locksmiths[Winner].locksmithId,
             travelTime |-> hist.etas[Winner].travel_time,
             jobAddress |-> call.address,
             coords |-> call.new_job_coords,
             ttl |-> 5 * 60]

\* C15 witness: the entry of a dispatch over two technicians whose selected
\* technician has a workload (its ETA is not its travel time) and a travel
\* time other than the other technician's, with the target resolved.
C15_Witness ==
  /\ pc = "find_return"
  /\ Len(call.locksmiths) = 2
  /\ Len(hist.cachePuts) = 1
  /\ hist.etas[Winner].eta # hist.etas[Winner].travel_time
  /\ \E i \in DOMAIN hist.etas :
       hist.etas[i].travel_time # hist.etas[Winner].travel_time
  /\ hist.cachePuts[1].item.coords # <<>>

\* A step of get_here_api_key that found no cached key and left none: the
\* retrieval failed.
RetrievalFailed ==
  pc = "get_here_api_key" /\ here_api_key = "" /\ here_api_key' = ""

\* C16: once the credential has been obtained it stays cached for the life
\* of the process: later calls of get_here_api_key return it without
\* contacting the credential store; a call whose retrieval fails caches
\* nothing, contacts the store once and returns "unavailable".
C16_CredentialCachedForProcess ==
  [][ /\ here_api_key # "" => here_api_key' = here_api_key
      /\ (pc = "get_here_api_key" /\ here_api_key # "") =>
           /\ hist'.ssmCalls = hist.ssmCalls
           /\ pc' = keyf.ret
           /\ keyf'.result = here_api_key
      /\ (pc = "get_here_api_key" /\ here_api_key = "") =>
           hist'.ssmCalls = hist.ssmCalls + 1
      /\ RetrievalFailed =>
           /\ pc' = keyf.ret
           /\ keyf'.result = ""
    ]_vars

\* C17: when the handler flushes with a non-empty buffer and under 100 ms
\* left, nothing is handed to the sink, the buffer is empty afterwards and
\* the response is the one already computed; with an empty buffer nothing
\* is handed to the sink either.
C17_LowTimeFlushSkipped ==
  [][ (pc = "find_return" /\ call.entry = "handler") =>
        /\ response' = HttpOk(call.earliest_locksmith_id, call.earliest_eta)
        /\ (metrics_to_record # <<>> /\ hist'.remaining < 100) =>
             /\ flushed' = <<>>
             /\ metrics_to_record' = <<>>
        /\ metrics_to_record = <<>> =>
             /\ flushed' = <<>>
             /\ metrics_to_record' = <<>>
    ]_vars

\* C17 witness: a request has answered 200 after dropping two buffered
\* events with 50 ms left.
C17_Witness ==
  /\ RequestEnded
  /\ response.statusCode = 200
  /\ hist.remaining = 50
  /\ hist.dropped = 2
  /\ flushed = <<>>
  /\ metrics_to_record = <<>>

====
